---- MODULE Spec2Model ----
(***************************************************************************)
(* Model of the netdata MultiChain plugin (src/multichain.node.js):        *)
(* configure / serviceExecute, the three-call collection cycle of          *)
(* multichainProcessor.process, processResponse / parseCharts and the      *)
(* get-or-create chart cache multichain.charts.                            *)
(*                                                                         *)
(* JavaScript values are records tagged by their typeof: undefined, null,  *)
(* numbers, strings, lists and objects, so that a field can be compared    *)
(* with undefined whatever it holds.  Chart ids are real strings built by  *)
(* concatenation, as the template literals of the source build them.       *)
(***************************************************************************)
EXTENDS Integers, Sequences, FiniteSets, TLC

\* ------------------------------------------------------------ bounds
\* longest config.servers list handed to configure
MaxServers == 2
\* longest list a liststreams call returns
MaxStreams == 2

\* ------------------------------------------------------------ JS values
Undefined == [type |-> "undefined"]
Null == [type |-> "null"]
Num(n) == [type |-> "number", value |-> n]
Str(s) == [type |-> "string", value |-> s]
Bool(b) == [type |-> "boolean", value |-> b]
List(items) == [type |-> "list", items |-> items]

\* `${value}` in a template literal
TemplateString(value) == IF value = Undefined THEN "undefined" ELSE value.value

\* the truthiness of a value in a condition
Truthy(value) ==
    /\ value # Undefined
    /\ value # Null
    /\ value # Bool(FALSE)
    /\ value # Num(0)
    /\ value # Str("")

\* obj.key of an object that may not have the key
Get(obj, key) == IF key \in DOMAIN obj THEN obj[key] ELSE Undefined

isUndefined(value) == value = Undefined

isDefined(value) == value # Undefined

\* Array.prototype.find: the first element the predicate accepts, undefined
\* when there is none; accepted[k] is the predicate's answer for values[k]
Find(values, accepted) ==
    IF \E k \in 1..Len(values) : accepted[k]
    THEN values[CHOOSE k \in 1..Len(values) :
                    /\ accepted[k]
                    /\ \A j \in 1..(k - 1) : ~accepted[j]]
    ELSE Undefined

areUndefined(values) ==
    Find(values, [k \in 1..Len(values) |-> isUndefined(values[k])])

\* ------------------------------------------------------------ module constants
update_every == 5
base_priority == 60000

\* multichain.dimensions: each table lists (dimension name, stats field)
blocksSizeDimensions == << [dimension |-> "size", field |-> "memSize"] >>
blocksMemoryDimensions == << [dimension |-> "memory", field |-> "memBytes"] >>
blocksDimensions == << [dimension |-> "blocks", field |-> "blocks"] >>
connectionsDimensions == << [dimension |-> "connections", field |-> "connections"] >>
streamItemsDimensions ==
    << [dimension |-> "confirmed", field |-> "confirmed"],
       [dimension |-> "unconfirmed", field |-> "unconfirmed"] >>
streamKeysDimensions == << [dimension |-> "keys", field |-> "keys"] >>

createBasicDimension(id, name, divisor) ==
    [id |-> id, name |-> name, algorithm |-> "absolute", multiplier |-> 1,
     divisor |-> divisor, hidden |-> FALSE]

\* the dim object a chart getter builds from a dimension table
chartDimensions(table) ==
    [k \in 1..Len(table) |-> createBasicDimension(table[k].field, table[k].dimension, 1)]

getChartId(service, suffix) == TemplateString(service.name) \o "." \o suffix

\* ------------------------------------------------------------ chart registry
\* The registry state threaded through one handler: multichain.charts (the
\* cache, chart id -> chart), the calls made on the sink (service.chart: per
\* chart id their number, and the service and chart of the latest).
\* The shared body of the six chart getters: look the id up in
\* multichain.charts, return the cached chart when it is defined, otherwise
\* register the new chart with service.chart (which hands the chart back)
\* and cache it.
\* faulty variant: the cache is not consulted, every get registers
lookupOrRegisterAlways(st, i, id, chart) ==
    [st |-> [st EXCEPT
                !.sink = IF id \in DOMAIN @
                         THEN [@ EXCEPT ![id] = [count |-> @.count + 1,
                                                 service |-> i, chart |-> chart]]
                         ELSE (id :> [count |-> 1, service |-> i, chart |-> chart]) @@ @,
                !.charts = (id :> chart) @@ @],
     chart |-> chart]

lookupOrRegister(st, i, id, chart) ==
    IF id \in DOMAIN st.charts /\ isDefined(st.charts[id])
    THEN [st |-> st, chart |-> st.charts[id]]
    ELSE [st |-> [st EXCEPT
                    !.sink = IF id \in DOMAIN @
                             THEN [@ EXCEPT ![id] = [count |-> @.count + 1,
                                                     service |-> i, chart |-> chart]]
                             ELSE (id :> [count |-> 1, service |-> i, chart |-> chart]) @@ @,
                    !.charts = (id :> chart) @@ @],
          chart |-> chart]

chartDefinition(id, title, units, family, type, service, table) ==
    [id |-> id, name |-> "", title |-> title, units |-> units, family |-> family,
     context |-> "multichain", type |-> type, priority |-> base_priority + 1,
     update_every |-> service.update_every, dimensions |-> chartDimensions(table)]

getStreamKeysChart(st, i, service, streamName) ==
    LET id == getChartId(service, "stream." \o TemplateString(streamName) \o ".key")
    IN  lookupOrRegister(st, i, id,
            chartDefinition(id,
                TemplateString(service.name) \o " stream " \o TemplateString(streamName) \o " keys",
                "keys", "stream " \o TemplateString(streamName), "area", service,
                streamKeysDimensions))

\* faulty variant: the id of the items chart leaves the stream name out
getStreamItemsChartNoName(st, i, service, streamName) ==
    LET id == getChartId(service, "stream.items")
    IN  lookupOrRegister(st, i, id,
            chartDefinition(id,
                TemplateString(service.name) \o " stream " \o TemplateString(streamName) \o " items",
                "items", "stream " \o TemplateString(streamName), "area", service,
                streamItemsDimensions))

getStreamItemsChart(st, i, service, streamName) ==
    LET id == getChartId(service, "stream." \o TemplateString(streamName) \o ".items")
    IN  lookupOrRegister(st, i, id,
            chartDefinition(id,
                TemplateString(service.name) \o " stream " \o TemplateString(streamName) \o " items",
                "items", "stream " \o TemplateString(streamName), "area", service,
                streamItemsDimensions))

getBlocksSizeChart(st, i, service) ==
    LET id == getChartId(service, "blocks.size")
    IN  lookupOrRegister(st, i, id,
            chartDefinition(id, TemplateString(service.name) \o " blocks size",
                "transactions", "blocks", "area", service, blocksSizeDimensions))

getBlocksMemoryChart(st, i, service) ==
    LET id == getChartId(service, "blocks.memory")
    IN  lookupOrRegister(st, i, id,
            chartDefinition(id, TemplateString(service.name) \o " blocks memory",
                "bytes", "blocks", "area", service, blocksMemoryDimensions))

getBlocksChart(st, i, service) ==
    LET id == getChartId(service, "blocks.count")
    IN  lookupOrRegister(st, i, id,
            chartDefinition(id, TemplateString(service.name) \o " blocks",
                "blocks", "blocks", "area", service, blocksDimensions))

getConnectionsChart(st, i, service) ==
    LET id == getChartId(service, "connections.count")
    IN  lookupOrRegister(st, i, id,
            chartDefinition(id, TemplateString(service.name) \o " connections",
                "connections", "connections", "line", service, connectionsDimensions))

\* ------------------------------------------------------------ stats mapper
getDimension(name, value) == [name |-> name, value |-> value]

getChart(chart, dimensions) == [chart |-> chart, dimensions |-> dimensions]

\* faulty variant: the difference is clamped at zero
MinusClamped(a, b) == IF a.value < b.value THEN Num(0) ELSE Num(a.value - b.value)

\* items - confirmed on two numbers
Minus(a, b) == Num(a.value - b.value)

\* Object.keys(table).map(dimension => getDimension(table[dimension], stats[table[dimension]]))
dimensionValues(table, stats) ==
    [k \in 1..Len(table) |-> getDimension(table[k].field, Get(stats, table[k].field))]

\* getChart on the chart a getter returned, with the registry state it left
chartWith(got, dimensions) == [st |-> got.st, chart |-> getChart(got.chart, dimensions)]

parseStreamItemsChart(st, i, service, streamStats) ==
    LET items == streamStats.items
        confirmed == streamStats.confirmed
    IN  chartWith(getStreamItemsChart(st, i, service, streamStats.name),
                  << getDimension("confirmed", streamStats.confirmed),
                     getDimension("unconfirmed", Minus(items, confirmed)) >>)

parseStreamKeysChart(st, i, service, streamStats) ==
    chartWith(getStreamKeysChart(st, i, service, streamStats.name), dimensionValues(streamKeysDimensions, streamStats))

parseBlocksSizeChart(st, i, service, stats) ==
    chartWith(getBlocksSizeChart(st, i, service), dimensionValues(blocksSizeDimensions, stats))

parseBlocksMemoryChart(st, i, service, stats) ==
    chartWith(getBlocksMemoryChart(st, i, service), dimensionValues(blocksMemoryDimensions, stats))

parseBlocksChart(st, i, service, stats) ==
    chartWith(getBlocksChart(st, i, service), dimensionValues(blocksDimensions, stats))

parseConnectionsChart(st, i, service, stats) ==
    chartWith(getConnectionsChart(st, i, service), dimensionValues(connectionsDimensions, stats))

\* The calls of parseCharts, in the order it makes them: for every stream of
\* stats.streams with subscribed set, its items chart and then its keys
\* chart; then the four charts of the node.
\* faulty variant: the subscribed flag is not looked at
RECURSIVE streamCallsAll(_, _)
streamCallsAll(streams, k) ==
    IF k > Len(streams) THEN << >>
    ELSE << [parse |-> "streamItems", stream |-> streams[k]],
            [parse |-> "streamKeys", stream |-> streams[k]] >>
         \o streamCallsAll(streams, k + 1)

RECURSIVE streamCalls(_, _)
streamCalls(streams, k) ==
    IF k > Len(streams) THEN << >>
    ELSE IF Truthy(streams[k].subscribed)
    THEN << [parse |-> "streamItems", stream |-> streams[k]],
            [parse |-> "streamKeys", stream |-> streams[k]] >>
         \o streamCalls(streams, k + 1)
    ELSE streamCalls(streams, k + 1)

parseChartsCalls(stats) ==
    streamCalls(stats.streams.items, 1)
    \o << [parse |-> "blocksSize"], [parse |-> "blocksMemory"],
          [parse |-> "blocks"], [parse |-> "connections"] >>

\* one call of parseCharts: charts.push(this.parse...Chart(service, ...))
parseCall(st, i, service, stats, call) ==
    CASE call.parse = "streamItems" -> parseStreamItemsChart(st, i, service, call.stream)
      [] call.parse = "streamKeys" -> parseStreamKeysChart(st, i, service, call.stream)
      [] call.parse = "blocksSize" -> parseBlocksSizeChart(st, i, service, stats)
      [] call.parse = "blocksMemory" -> parseBlocksMemoryChart(st, i, service, stats)
      [] call.parse = "blocks" -> parseBlocksChart(st, i, service, stats)
      [] call.parse = "connections" -> parseConnectionsChart(st, i, service, stats)

\* the calls from the k-th on, each on the registry state the one before
\* left; pushed is what the k-th call returned
RECURSIVE parseChartsFrom(_, _, _, _, _, _, _)
RECURSIVE parseChartsPush(_, _, _, _, _, _, _)
parseChartsFrom(st, i, service, stats, calls, k, charts) ==
    IF k > Len(calls) THEN [threw |-> FALSE, st |-> st, charts |-> charts]
    ELSE parseChartsPush(parseCall(st, i, service, stats, calls[k]),
                         i, service, stats, calls, k, charts)

parseChartsPush(pushed, i, service, stats, calls, k, charts) ==
    parseChartsFrom(pushed.st, i, service, stats, calls, k + 1,
                    Append(charts, pushed.chart))

\* threw: stats.streams has no forEach (it is undefined or null), a TypeError
\* raised before any chart is looked up
parseCharts(st, i, service, stats) ==
    IF stats.streams.type # "list"
    THEN [threw |-> TRUE, st |-> st, charts |-> << >>]
    ELSE parseChartsFrom(st, i, service, stats, parseChartsCalls(stats), 1, << >>)

\* faulty variant: only blocks is required
isResponseValidBlocksOnly(json) == isDefined(json.blocks)

isResponseValid(json) ==
    IF isUndefined(json.blocks) THEN FALSE ELSE isDefined(json.connections)

\* content is null or an object here: process hands its callback nothing
\* else, so the JSON.parse branch for string content is never entered
convertToJson(content) ==
    IF content = Null THEN Null
    ELSE IF isResponseValid(content) THEN content ELSE Null

\* the begin / set... / end calls of one chart
chartSamples(chart) ==
    << [op |-> "begin", chart |-> chart.chart.id] >>
    \o [k \in 1..Len(chart.dimensions) |->
            [op |-> "set", name |-> chart.dimensions[k].name,
             value |-> chart.dimensions[k].value]]
    \o << [op |-> "end"] >>

RECURSIVE samples(_, _)
samples(charts, k) ==
    IF k > Len(charts) THEN << >> ELSE chartSamples(charts[k]) \o samples(charts, k + 1)

\* the chart ids a handler registered with the sink
registeredBetween(before, after) ==
    { id \in DOMAIN after.sink :
        id \notin DOMAIN before.sink \/ after.sink[id].count # before.sink[id].count }

\* processResponse after parseCharts returned p: the samples of every chart
forEachChart(st, content, stats, p) ==
    [st |-> p.st, content |-> content, stats |-> stats, committed |-> TRUE,
     parsed |-> TRUE, threw |-> p.threw, charts |-> p.charts,
     registered |-> registeredBetween(st, p.st),
     cached |-> DOMAIN p.st.charts \ DOMAIN st.charts,
     emitted |-> IF p.threw THEN << >> ELSE samples(p.charts, 1)]

\* processResponse after convertToJson returned stats
processStats(st, i, service, content, stats) ==
    IF stats = Null
    THEN [st |-> st, content |-> content, stats |-> stats, committed |-> FALSE,
          parsed |-> FALSE, threw |-> FALSE, charts |-> << >>, registered |-> {},
          cached |-> {},
          emitted |-> << >>]
    ELSE forEachChart(st, content, stats, parseCharts(st, i, service, stats))

\* What one call processResponse(service, content) does: the registry state
\* after it, whether service.commit and parseCharts were called, whether it
\* threw, the list parseCharts returned, the chart ids registered with the
\* sink, those added to the cache and the samples sent to the service.
processResponse(st, i, service, content) ==
    processStats(st, i, service, content, convertToJson(content))

\* ------------------------------------------------------------ inputs
\* the server entries a configuration may list
Entry(name, hostname, path, every) ==
    [name |-> name, hostname |-> hostname, port |-> Num(6300),
     username |-> Str("username"), password |-> Str("password"),
     chain |-> Str("chain"), path |-> path, update_every |-> every]

Entries ==
    { Entry(Str("n"), Str("localhost"), Str("/"), Undefined),
      Entry(Str("n.stream.s"), Undefined, Undefined, Num(10)) }

ServerLists == UNION { [1..n -> Entries] : n \in 0..MaxServers }

\* a configuration without a servers key, and one per list of servers
Configs ==
    { [update_every |-> Num(update_every)] }
    \cup { [update_every |-> Num(update_every), servers |-> List(l)] : l \in ServerLists }

StreamStat(name, subscribed, items, confirmed, keys) ==
    [name |-> Str(name), subscribed |-> Bool(subscribed), items |-> Num(items),
     confirmed |-> Num(confirmed), keys |-> Num(keys)]

StreamStats ==
    { StreamStat("s", TRUE, 2, 5, 1),
      StreamStat("s.stream.s", TRUE, 10, 7, 3),
      StreamStat("t", FALSE, 4, 4, 2) }

StreamLists == UNION { [1..n -> StreamStats] : n \in 0..MaxStreams }

\* a getinfo result may lack blocks or connections
GetinfoResults ==
    { [type |-> "object", blocks |-> Num(100), connections |-> Num(5)],
      [type |-> "object", blocks |-> Undefined, connections |-> Num(5)],
      [type |-> "object", blocks |-> Num(100), connections |-> Undefined] }

GetmempoolinfoResults == { [type |-> "object", size |-> Num(2), bytes |-> Num(512)] }

ListstreamsResults == { List(l) : l \in StreamLists }

\* What the server answers to one request: a connection error, or a status
\* code and a body text, which is JSON or not.  The JSON bodies are objects
\* whose result is one of the results, or null.
Replies(results) ==
    { [error |-> TRUE] }
    \cup { [error |-> FALSE, statusCode |-> 500, json |-> FALSE] }
    \cup { [error |-> FALSE, statusCode |-> 200, json |-> FALSE] }
    \cup { [error |-> FALSE, statusCode |-> 200, json |-> TRUE,
            body |-> [type |-> "object", result |-> r]] : r \in results \cup {Null} }

\* ------------------------------------------------------------ collector
\* The promise post returns, settled by the reply: rejected on a request
\* error or a status outside 200..299, resolved otherwise; a body that does
\* not parse becomes { error }.
post(reply) ==
    IF reply.error
    THEN [rejected |-> TRUE,
          response |-> [statusCode |-> -1, body |-> [type |-> "object", error |-> Str("e")]]]
    ELSE LET body == IF reply.json THEN reply.body
                     ELSE [type |-> "object", error |-> Str("SyntaxError")]
             response == [statusCode |-> reply.statusCode, body |-> body]
         IN  [rejected |-> reply.statusCode < 200 \/ reply.statusCode > 299,
              response |-> response]

\* reading a property of x throws a TypeError
NoProperties(x) == x = Undefined \/ x = Null

emptyData ==
    [type |-> "object", blocks |-> Undefined, connections |-> Undefined,
     memSize |-> Undefined, memBytes |-> Undefined, streams |-> Undefined]

\* the then-callbacks of process: the accumulator after the step, or threw
\* faulty variant: a body without a result does not throw, it leaves blocks
\* and connections undefined
onGetinfoLenient(data, info) ==
    IF NoProperties(info.body) \/ NoProperties(Get(info.body, "result"))
    THEN [threw |-> FALSE, data |-> data]
    ELSE [threw |-> FALSE,
          data |-> [data EXCEPT !.blocks = Get(info.body.result, "blocks"),
                                !.connections = Get(info.body.result, "connections")]]

onGetinfo(data, info) ==
    IF NoProperties(info.body) \/ NoProperties(Get(info.body, "result"))
    THEN [threw |-> TRUE, data |-> data]
    ELSE [threw |-> FALSE,
          data |-> [data EXCEPT !.blocks = Get(info.body.result, "blocks"),
                                !.connections = Get(info.body.result, "connections")]]

onGetmempoolinfo(data, mempoolinfo) ==
    IF NoProperties(mempoolinfo.body) \/ NoProperties(Get(mempoolinfo.body, "result"))
    THEN [threw |-> TRUE, data |-> data]
    ELSE [threw |-> FALSE,
          data |-> [data EXCEPT !.memSize = Get(mempoolinfo.body.result, "size"),
                                !.memBytes = Get(mempoolinfo.body.result, "bytes")]]

onListstreams(data, streams) ==
    IF NoProperties(streams.body)
    THEN [threw |-> TRUE, data |-> data]
    ELSE [threw |-> FALSE, data |-> [data EXCEPT !.streams = Get(streams.body, "result")]]

\* ------------------------------------------------------------ state
VARIABLES
    phase,      \* "start" before configure is called, "configured" after
    config,     \* the configuration configure was called with
    returned,   \* the count configure returned
    executed,   \* the serviceExecute calls: the entry's index and the server passed
    services,   \* the services created with netdata.service, in order
    pc,         \* per service: "idle", or the call its cycle is waiting for
    data,       \* per service: the accumulator of the cycle under way
    issued,     \* per service: the methods posted in the cycle under way
    inflight,   \* per service: the number of requests not yet settled
    replies,    \* per service: the replies received in the cycle under way
    charts,     \* multichain.charts, chart id -> chart
    sink,       \* the service.chart calls made, per chart id
    last        \* what the last handler ended: the cycle's calls, replies and callback runs

vars == << phase, config, returned, executed, services, pc, data, issued, inflight,
           replies, charts, sink, last >>

cycleVars == << pc, data, issued, inflight, replies >>

registryVars == << charts, sink >>

configVars == << phase, config, returned, executed, services >>

\* the handler that ran last ended no cycle
noCycle == [service |-> 0, issued |-> << >>, replies |-> << >>, runs |-> << >>]

Init ==
    /\ phase = "start"
    /\ config = Undefined
    /\ returned = Undefined
    /\ executed = << >>
    /\ services = << >>
    /\ pc = << >>
    /\ data = << >>
    /\ issued = << >>
    /\ inflight = << >>
    /\ replies = << >>
    /\ charts = << >>
    /\ sink = << >>
    /\ last = noCycle

\* ------------------------------------------------------------ orchestrator
\* the object serviceExecute hands to netdata.service
serviceOptions(server) ==
    [name |-> Get(server, "name"),
     update_every |-> Get(server, "updateEvery"),
     hostname |-> Get(server, "hostname"),
     port |-> Get(server, "port"),
     username |-> Get(server, "username"),
     password |-> Get(server, "password"),
     chain |-> Get(server, "chain")]

\* a faulty forEach body: serviceExecute is called, added is left as it was
configureServerNoCount(acc, k, entry) ==
    [executed |-> Append(acc.executed, [index |-> k, server |-> entry]),
     added |-> acc.added]

\* the body of configure's forEach for entry k: the calls of serviceExecute
\* and the count so far
configureServer(acc, k, entry) ==
    LET server == IF isUndefined(Get(entry, "update_every"))
                  THEN [entry EXCEPT !.update_every = Num(update_every)]
                  ELSE entry
    IN  IF Truthy(areUndefined(<< Get(server, "name"), Get(server, "hostname"),
                                  Get(server, "port"), Get(server, "username"),
                                  Get(server, "password"), Get(server, "chain"),
                                  Get(server, "path") >>))
        THEN acc
        ELSE [executed |-> Append(acc.executed, [index |-> k, server |-> server]),
              added |-> acc.added + 1]

RECURSIVE configureFrom(_, _, _)
configureFrom(servers, k, acc) ==
    IF k > Len(servers) THEN acc
    ELSE configureFrom(servers, k + 1, configureServer(acc, k, servers[k]))

configure(c) ==
    IF isUndefined(Get(c, "servers"))
    THEN [executed |-> << >>, added |-> 0]
    ELSE configureFrom(c.servers.items, 1, [executed |-> << >>, added |-> 0])

\* configure(c): every serviceExecute call creates its service and, with
\* service.execute, starts the service's first cycle, which posts getinfo
Configure(c) ==
    /\ phase = "start"
    /\ LET done == configure(c)
           n == Len(done.executed)
       IN  /\ phase' = "configured"
           /\ config' = c
           /\ returned' = done.added
           /\ executed' = done.executed
           /\ services' = [k \in 1..n |-> serviceOptions(done.executed[k].server)]
           /\ pc' = [k \in 1..n |-> "getinfo"]
           /\ data' = [k \in 1..n |-> emptyData]
           /\ issued' = [k \in 1..n |-> << "getinfo" >>]
           /\ inflight' = [k \in 1..n |-> 1]
           /\ replies' = [k \in 1..n |-> << >>]
    /\ last' = noCycle
    /\ UNCHANGED << charts, sink >>

\* update(service, callback): the host starts the next cycle of a service
\* whose previous cycle has ended; process posts getinfo
Update(i) ==
    /\ phase = "configured"
    /\ pc[i] = "idle"
    /\ pc' = [pc EXCEPT ![i] = "getinfo"]
    /\ data' = [data EXCEPT ![i] = emptyData]
    /\ issued' = [issued EXCEPT ![i] = << "getinfo" >>]
    /\ inflight' = [inflight EXCEPT ![i] = 1]
    /\ replies' = [replies EXCEPT ![i] = << >>]
    /\ last' = noCycle
    /\ UNCHANGED << configVars, registryVars >>

\* ------------------------------------------------------------ the cycle
\* one step of the chain: the post settles and, when it resolved, the
\* then-callback runs; failed when the post rejected or the callback threw
getinfoStep(d, reply) ==
    LET p == post(reply)
    IN  IF p.rejected THEN [threw |-> TRUE, data |-> d] ELSE onGetinfo(d, p.response)

getmempoolinfoStep(d, reply) ==
    LET p == post(reply)
    IN  IF p.rejected THEN [threw |-> TRUE, data |-> d] ELSE onGetmempoolinfo(d, p.response)

liststreamsStep(d, reply) ==
    LET p == post(reply)
    IN  IF p.rejected THEN [threw |-> TRUE, data |-> d] ELSE onListstreams(d, p.response)

\* .then(callback).catch(error => callback(null)) with the given content:
\* the callback is processResponse; when it throws, the catch calls it again
\* with null.  runs lists what each call of the callback did.
catch(i, first) ==
    IF first.threw
    THEN << first, processResponse(first.st, i, services[i], Null) >>
    ELSE << first >>

callbacks(st, i, content) == catch(i, processResponse(st, i, services[i], content))

\* the cycle of service i has ended with these runs of the callback
Ended(i, reply, runs) ==
    /\ charts' = runs[Len(runs)].st.charts
    /\ sink' = runs[Len(runs)].st.sink
    /\ last' = [service |-> i, issued |-> issued[i],
                replies |-> Append(replies[i], reply),
                runs |-> [k \in 1..Len(runs) |-> [runs[k] EXCEPT !.st = Null]]]
    /\ pc' = [pc EXCEPT ![i] = "idle"]
    /\ data' = [data EXCEPT ![i] = emptyData]
    /\ issued' = [issued EXCEPT ![i] = << >>]
    /\ inflight' = [inflight EXCEPT ![i] = 0]
    /\ replies' = [replies EXCEPT ![i] = << >>]

\* the cycle of service i ends by handing content to the callback
EndCycle(i, reply, content) ==
    Ended(i, reply, callbacks([charts |-> charts, sink |-> sink], i, content))

\* the cycle of service i goes on with the next call
NextCall(i, reply, d, method) ==
    /\ pc' = [pc EXCEPT ![i] = method]
    /\ data' = [data EXCEPT ![i] = d]
    /\ issued' = [issued EXCEPT ![i] = Append(@, method)]
    /\ inflight' = [inflight EXCEPT ![i] = @ - 1 + 1]
    /\ replies' = [replies EXCEPT ![i] = Append(@, reply)]
    /\ last' = noCycle
    /\ UNCHANGED registryVars

GetinfoSettles(i, reply) ==
    /\ pc[i] = "getinfo"
    /\ LET step == getinfoStep(data[i], reply)
       IN  IF step.threw
           THEN EndCycle(i, reply, Null)
           ELSE NextCall(i, reply, step.data, "getmempoolinfo")
    /\ UNCHANGED configVars

GetmempoolinfoSettles(i, reply) ==
    /\ pc[i] = "getmempoolinfo"
    /\ LET step == getmempoolinfoStep(data[i], reply)
       IN  IF step.threw
           THEN EndCycle(i, reply, Null)
           ELSE NextCall(i, reply, step.data, "liststreams")
    /\ UNCHANGED configVars

ListstreamsSettles(i, reply) ==
    /\ pc[i] = "liststreams"
    /\ LET step == liststreamsStep(data[i], reply)
       IN  EndCycle(i, reply, IF step.threw THEN Null ELSE step.data)
    /\ UNCHANGED configVars

Next ==
    \/ \E c \in Configs : Configure(c)
    \/ \E i \in DOMAIN services : Update(i)
    \/ \E i \in DOMAIN services : \E reply \in Replies(GetinfoResults) :
            GetinfoSettles(i, reply)
    \/ \E i \in DOMAIN services : \E reply \in Replies(GetmempoolinfoResults) :
            GetmempoolinfoSettles(i, reply)
    \/ \E i \in DOMAIN services : \E reply \in Replies(ListstreamsResults) :
            ListstreamsSettles(i, reply)

Spec == Init /\ [][Next]_vars

\* ------------------------------------------------------------ properties
\* the three calls of a cycle, in order
Order == << "getinfo", "getmempoolinfo", "liststreams" >>

\* a call succeeded: no request error, a status in 200..299 and a JSON body
\* that carries a result
Succeeded(reply) ==
    /\ ~reply.error
    /\ reply.statusCode >= 200
    /\ reply.statusCode <= 299
    /\ reply.json
    /\ Get(reply.body, "result") # Undefined
    /\ Get(reply.body, "result") # Null

IsPrefix(s, t) == Len(s) <= Len(t) /\ \A k \in 1..Len(s) : s[k] = t[k]

Runs == { last.runs[k] : k \in DOMAIN last.runs }

\* C1: the callback of a cycle receives a non-null value only when all three
\* calls of the cycle succeeded, and the value then carries blocks and
\* connections of the getinfo result, memSize and memBytes of the
\* getmempoolinfo result and streams of the liststreams result; after any
\* failed call it receives null.
C1_SnapshotOnlyAfterThreeSuccesses ==
    \A run \in Runs :
        run.content # Null =>
            /\ Len(last.replies) = 3
            /\ \A k \in 1..3 : Succeeded(last.replies[k])
            /\ run.content.blocks = Get(last.replies[1].body.result, "blocks")
            /\ run.content.connections = Get(last.replies[1].body.result, "connections")
            /\ run.content.memSize = Get(last.replies[2].body.result, "size")
            /\ run.content.memBytes = Get(last.replies[2].body.result, "bytes")
            /\ run.content.streams = last.replies[3].body.result

\* C2: the calls of a cycle are a prefix of getinfo, getmempoolinfo,
\* liststreams, each issued once; at most one is in flight, every issued call
\* but the one in flight has settled, and a call is followed by another one
\* only when it succeeded.
C2_CallsInOrderNoRetry ==
    /\ \A i \in DOMAIN services :
        /\ inflight[i] \in {0, 1}
        /\ IsPrefix(issued[i], Order)
        /\ Len(issued[i]) = Len(replies[i]) + inflight[i]
        /\ \A k \in 1..Len(replies[i]) : Succeeded(replies[i][k])
    /\ IsPrefix(last.issued, Order)
    /\ Len(last.issued) = Len(last.replies)
    /\ \A k \in 1..(Len(last.replies) - 1) : Succeeded(last.replies[k])

\* a cycle ended after getmempoolinfo failed: liststreams was never issued
C2_Witness ==
    /\ last.service # 0
    /\ last.issued = << "getinfo", "getmempoolinfo" >>
    /\ ~Succeeded(last.replies[2])

\* content that processResponse must skip
Skipped(content) ==
    \/ content = Null
    \/ content.blocks = Undefined
    \/ content.connections = Undefined

\* C3: a call of processResponse with null, or with a snapshot whose blocks or
\* connections is undefined, does nothing: no commit, no parseCharts, no
\* chart registered or cached, no sample.
C3_InvalidContentSkipped ==
    \A run \in Runs :
        Skipped(run.content) =>
            /\ ~run.committed
            /\ ~run.parsed
            /\ run.registered = {}
            /\ run.cached = {}
            /\ run.emitted = << >>

\* all three calls succeeded, and the snapshot lacks connections
C3_Witness ==
    \E run \in Runs :
        /\ run.content # Null
        /\ run.content.blocks # Undefined
        /\ run.content.connections = Undefined
        /\ run.content.streams # Undefined

\* C4: every chart id is registered with the sink once at most, the cache
\* holds for it the chart registered then, and every chart a cycle got is
\* the cached one.
C4_RegisteredOnce ==
    /\ DOMAIN sink = DOMAIN charts
    /\ \A id \in DOMAIN sink : sink[id].count = 1 /\ charts[id] = sink[id].chart
    /\ \A run \in Runs : \A k \in DOMAIN run.charts :
            /\ run.charts[k].chart.id \in DOMAIN charts
            /\ run.charts[k].chart = charts[run.charts[k].chart.id]

\* a cycle got charts without registering any: all were cached before
C4_Witness ==
    \E run \in Runs : Len(run.charts) >= 6 /\ run.registered = {}

Mandatory == { "name", "hostname", "port", "username", "password", "chain", "path" }

Incomplete(entry) == \E f \in Mandatory : Get(entry, f) = Undefined

\* C5: configure calls serviceExecute for exactly the entries that have all
\* seven mandatory fields, and returns their number.
C5_IncompleteEntriesRejected ==
    (phase = "configured" /\ Get(config, "servers") # Undefined) =>
        LET entries == config.servers.items
        IN  /\ \A k \in DOMAIN entries :
                    Incomplete(entries[k]) <=> ~\E j \in DOMAIN executed : executed[j].index = k
            /\ returned = Cardinality({ k \in DOMAIN entries : ~Incomplete(entries[k]) })

IsSubscribed(stream) == stream.subscribed = Bool(TRUE)

\* the values of a chart's dimensions
Values(chart) == [k \in DOMAIN chart.dimensions |-> chart.dimensions[k].value]

\* C6: for a valid snapshot parseCharts returns, for each subscribed stream in
\* list order, its items chart and then its keys chart with keys =
\* stream.keys, and then blocks.size with memSize, blocks.memory with
\* memBytes, blocks.count with blocks and connections.count with connections;
\* nothing else.
C6_ParseChartsSequence ==
    \A run \in Runs :
        (run.parsed /\ ~run.threw) =>
            LET name == TemplateString(services[last.service].name)
                sub == SelectSeq(run.stats.streams.items, IsSubscribed)
                n == Len(sub)
                got == run.charts
            IN  /\ Len(got) = 2 * n + 4
                /\ \A k \in 1..n :
                    /\ got[2 * k - 1].chart.id =
                            name \o ".stream." \o sub[k].name.value \o ".items"
                    /\ got[2 * k].chart.id =
                            name \o ".stream." \o sub[k].name.value \o ".key"
                    /\ Values(got[2 * k]) = << sub[k].keys >>
                /\ got[2 * n + 1].chart.id = name \o ".blocks.size"
                /\ Values(got[2 * n + 1]) = << run.stats.memSize >>
                /\ got[2 * n + 2].chart.id = name \o ".blocks.memory"
                /\ Values(got[2 * n + 2]) = << run.stats.memBytes >>
                /\ got[2 * n + 3].chart.id = name \o ".blocks.count"
                /\ Values(got[2 * n + 3]) = << run.stats.blocks >>
                /\ got[2 * n + 4].chart.id = name \o ".connections.count"
                /\ Values(got[2 * n + 4]) = << run.stats.connections >>

\* a snapshot listing an unsubscribed stream before a subscribed one
C6_Witness ==
    \E run \in Runs :
        /\ run.parsed
        /\ ~run.threw
        /\ Len(run.stats.streams.items) = 2
        /\ ~IsSubscribed(run.stats.streams.items[1])
        /\ IsSubscribed(run.stats.streams.items[2])
        /\ Len(run.charts) = 6

\* C7: the items chart of a subscribed stream carries confirmed =
\* stream.confirmed and unconfirmed = stream.items - stream.confirmed, not
\* clamped: negative when confirmed > items, not negative when items >=
\* confirmed.
C7_UnconfirmedNotClamped ==
    \A run \in Runs :
        (run.parsed /\ ~run.threw) =>
            LET sub == SelectSeq(run.stats.streams.items, IsSubscribed)
            IN  \A k \in 1..Len(sub) :
                    LET dimensions == run.charts[2 * k - 1].dimensions
                        items == sub[k].items.value
                        confirmed == sub[k].confirmed.value
                    IN  /\ Len(dimensions) = 2
                        /\ dimensions[1] = [name |-> "confirmed", value |-> sub[k].confirmed]
                        /\ dimensions[2].name = "unconfirmed"
                        /\ dimensions[2].value = Num(items - confirmed)
                        /\ confirmed > items => dimensions[2].value.value < 0
                        /\ items >= confirmed => dimensions[2].value.value >= 0

\* the samples of a cycle set a negative unconfirmed
C7_Witness ==
    \E run \in Runs : \E k \in DOMAIN run.emitted :
        /\ run.emitted[k].op = "set"
        /\ run.emitted[k].name = "unconfirmed"
        /\ run.emitted[k].value.value < 0

\* C8: a cycle of one service never uses a cache key that another service
\* wrote: every chart a cycle gets was registered by a cycle of the same
\* service.
C8_NodesShareNoCacheKey ==
    \A run \in Runs : \A k \in DOMAIN run.charts :
        sink[run.charts[k].chart.id].service = last.service

\* stream names a node may report
StreamNames ==
    { "s", "t", "s.stream.s", "items", "key", "s.items", "s.key", "t.key",
      "blocks.size", "stream", "" }

ItemsId(i, name) ==
    getStreamItemsChart([charts |-> charts, sink |-> sink], i, services[i],
                        Str(name)).chart.id

KeysId(i, name) ==
    getStreamKeysChart([charts |-> charts, sink |-> sink], i, services[i],
                       Str(name)).chart.id

NodeIds(i) ==
    LET st == [charts |-> charts, sink |-> sink]
    IN  { getBlocksSizeChart(st, i, services[i]).chart.id,
          getBlocksMemoryChart(st, i, services[i]).chart.id,
          getBlocksChart(st, i, services[i]).chart.id,
          getConnectionsChart(st, i, services[i]).chart.id }

\* C9: within one node the items ids of two different streams differ, so do
\* their keys ids, no items id is a keys id and no stream id is one of the
\* four ids of the node (the ids of all stream names and of the node are as
\* many as the charts); the charts one cycle gets for different streams all
\* differ.
C9_NoCollisionWithinNode ==
    /\ \A i \in DOMAIN services :
            Cardinality({ ItemsId(i, a) : a \in StreamNames }
                        \cup { KeysId(i, a) : a \in StreamNames }
                        \cup NodeIds(i))
                = 2 * Cardinality(StreamNames) + 4
    /\ \A run \in Runs :
        (run.parsed /\ ~run.threw) =>
            LET sub == SelectSeq(run.stats.streams.items, IsSubscribed)
            IN  (\A k \in 1..Len(sub), l \in 1..Len(sub) :
                        k # l => sub[k].name # sub[l].name)
                => Cardinality({ run.charts[k].chart.id : k \in DOMAIN run.charts })
                        = Len(run.charts)

\* a cycle got the charts of two different streams and of the node
C9_Witness ==
    \E run \in Runs :
        /\ Len(run.charts) = 8
        /\ Cardinality({ run.charts[k].chart.id : k \in DOMAIN run.charts }) = 8

\* C10: every service is created with the update_every of its entry, or the
\* module's when the entry has none, and every chart registered for the
\* service carries that value.
C10_UpdateEveryReachesService ==
    \A j \in DOMAIN services :
        LET entry == config.servers.items[executed[j].index]
            every == IF Get(entry, "update_every") # Undefined
                     THEN entry.update_every
                     ELSE Num(update_every)
        IN  /\ services[j].update_every = every
            /\ \A id \in DOMAIN sink :
                    sink[id].service = j => sink[id].chart.update_every = every

\* C11: configure returns the number of serviceExecute calls it made, one
\* service per call; without a servers key it returns 0 and registers no
\* node, and for one entry with all seven mandatory fields it registers one
\* node and returns 1.
C11_ConfigureReturnsRegistered ==
    phase = "configured" =>
        /\ returned = Len(executed)
        /\ Len(services) = Len(executed)
        /\ Get(config, "servers") = Undefined => returned = 0 /\ services = << >>
        /\ ( /\ Get(config, "servers") # Undefined
             /\ Len(config.servers.items) = 1
             /\ ~Incomplete(config.servers.items[1]) ) =>
                returned = 1 /\ Len(services) = 1

\* configure has returned 1 for a single entry with all mandatory fields
C11_Witness ==
    /\ phase = "configured"
    /\ Get(config, "servers") # Undefined
    /\ Len(config.servers.items) = 1
    /\ ~Incomplete(config.servers.items[1])
    /\ returned = 1
    /\ Len(executed) = 1

\* C12: a cycle that has ended, all its issued calls settled, has invoked
\* its callback exactly once, also when the callback threw.
C12_CallbackExactlyOnce ==
    last.service # 0 =>
        /\ Len(last.replies) = Len(last.issued)
        /\ Len(last.runs) = 1

====
